---- MODULE Spec2Model ----
(***************************************************************************)
(* Model of plugins/lab.js: the "lab" command handler, its two file        *)
(* helpers loadBookings / saveBookings, and the bookings file they share.  *)
(*                                                                         *)
(* A command invocation is an async function.  It suspends at three       *)
(* places: the readFile inside loadBookings, the mkdir inside saveBookings *)
(* and the writeFile inside saveBookings.  Everything between two          *)
(* suspension points runs without interruption, so each action below is   *)
(* the code from one suspension point to the next.                        *)
(*                                                                         *)
(* Argument tokens, dates, times and ids are sequences of one-character    *)
(* strings, so that the two regular expressions, toLowerCase and the      *)
(* slice(-6) of the id are computed character by character.               *)
(***************************************************************************)
EXTENDS Integers, Sequences, FiniteSets, TLC

\* ---------------------------------------------------------------- bounds

\* Invocations started in one behaviour of Spec (overlapping allowed).
MaxInvocations == 2
\* Invocations started in one behaviour of SeqSpec (one at a time).
MaxSeqInvocations == 3

\* Invocations that may be in flight at once.
Slots == {1, 2}

\* ------------------------------------------------------- program constants

\* Date.now().toString().slice(-6): the last six decimal digits.
IdModulus == 1000000

\* The instants at which the clock is read, counted in milliseconds from
\* instant 0: the same millisecond, the next one, and one id period later.
Instants == {0, 1, IdModulus}

\* ------------------------------------------------------------------ tokens

TokBook == <<"b", "o", "o", "k">>
TokBookCaps == <<"B", "O", "O", "K">>
TokView == <<"v", "i", "e", "w">>
TokCancel == <<"c", "a", "n", "c", "e", "l">>
TokStatus == <<"s", "t", "a", "t", "u", "s">>
TokOther == <<"l", "i", "s", "t">>
TokEmpty == <<>>

Alice == <<"A", "l", "i", "c", "e">>
Bob == <<"B", "o", "b">>
Chem == <<"c", "h", "e", "m">>

GoodDate == <<"2", "0", "2", "5", "-", "0", "5", "-", "0", "1">>
BadDate == <<"2", "0", "2", "5", "-", "5", "-", "1">>
GoodTime == <<"9", ":", "0", "5">>
BadTime == <<"9", ":", "5">>

LabPrefix == <<"L", "A", "B">>
\* An id the generator does not produce at any instant of the model.
AbsentId == <<"L", "A", "B", "9", "9", "9", "9", "9", "9">>

Names == {Alice, Bob}
GoodDates == {GoodDate}
BadDates == {BadDate}
GoodTimes == {GoodTime}
BadTimes == {BadTime}
LabTypes == {Chem}

\* ------------------------------------------------------- character helpers

Digits == {"0", "1", "2", "3", "4", "5", "6", "7", "8", "9"}
DigitChars == <<"0", "1", "2", "3", "4", "5", "6", "7", "8", "9">>
UpperChars == <<"A", "B", "C", "D", "E", "F", "G", "H", "I", "J", "K", "L", "M",
                "N", "O", "P", "Q", "R", "S", "T", "U", "V", "W", "X", "Y", "Z">>
LowerChars == <<"a", "b", "c", "d", "e", "f", "g", "h", "i", "j", "k", "l", "m",
                "n", "o", "p", "q", "r", "s", "t", "u", "v", "w", "x", "y", "z">>

IsDigit(c) == c \in Digits

LowerChar(c) ==
  IF \E k \in DOMAIN UpperChars : UpperChars[k] = c
  THEN LowerChars[CHOOSE k \in DOMAIN UpperChars : UpperChars[k] = c]
  ELSE c

\* String.prototype.toLowerCase
ToLowerCase(s) == [k \in DOMAIN s |-> LowerChar(s[k])]

\* A date check that lets one-digit months and days through.
IsDateFormat_Loose(s) ==
  /\ Len(s) >= 8
  /\ \A k \in 1..4 : IsDigit(s[k])
  /\ s[5] = "-"

\* /^\d{4}-\d{2}-\d{2}$/.test(date)
IsDateFormat(s) ==
  /\ Len(s) = 10
  /\ \A k \in 1..10 : IF k \in {5, 8} THEN s[k] = "-" ELSE IsDigit(s[k])

\* /^\d{1,2}:\d{2}$/.test(time)
IsTimeFormat(s) ==
  \E h \in 1..2 :
    /\ Len(s) = h + 3
    /\ \A k \in 1..h : IsDigit(s[k])
    /\ s[h + 1] = ":"
    /\ IsDigit(s[h + 2])
    /\ IsDigit(s[h + 3])

\* The clock value t is Date.now() counted from an instant that is a whole
\* multiple of IdModulus milliseconds, so the last six decimal digits of
\* Date.now() are those of t % IdModulus, zero padded.
LastSixDigits(t) ==
  [k \in 1..6 |-> DigitChars[(((t % IdModulus) \div (10 ^ (6 - k))) % 10) + 1]]

\* `LAB${Date.now().toString().slice(-6)}`
BookingId(t) == LabPrefix \o LastSixDigits(t)

\* !args[k-1] in the source: the token is missing or the empty string.
Falsy(a, k) == Len(a) < k \/ a[k] = TokEmpty

\* ------------------------------------------------------------ the document

\* A parsed JSON value, by the way the handler can tell values apart:
\*   "null"    JSON null: reading a property of it throws;
\*   "plain"   a value whose .bookings is undefined or falsy or has length 0
\*             without being an array (an object without the key, a number,
\*             a string, an array, {"bookings": null}, ...);
\*   "nonlist" an object whose .bookings is truthy, is not an array and has
\*             no length 0 (a number, an object, a non-empty string);
\*   "doc"     an object whose .bookings is an array of booking records.
Value(shape, bookings) == [shape |-> shape, bookings |-> bookings]

EmptyDoc == Value("doc", <<>>)
NullValue == Value("null", <<>>)
PlainValue == Value("plain", <<>>)
NonListValue == Value("nonlist", <<>>)

\* The content of data/lab_bookings.json.
Missing == [kind |-> "missing", value |-> EmptyDoc]
Garbage == [kind |-> "garbage", value |-> EmptyDoc]
Json(v) == [kind |-> "json", value |-> v]

\* JSON.stringify(bookingsData, null, 2), as the text that parses back to v.
Stringify(v) == Json(v)

\* fs.readFile followed by JSON.parse: either throws.
ReadAndParse(f) ==
  IF f.kind = "json"
  THEN [threw |-> FALSE, value |-> f.value]
  ELSE [threw |-> TRUE, value |-> EmptyDoc]

\* loadBookings without its catch block.
loadBookings_NoCatch(f) == ReadAndParse(f)

loadBookings(f) ==
  LET r == ReadAndParse(f)
  IN IF r.threw THEN [threw |-> FALSE, value |-> EmptyDoc] ELSE r

\* ----------------------------------------------------------------- replies

NoReply == [k |-> "none"]
HelpMsg == [k |-> "help"]
UnknownMsg == [k |-> "unknown"]
NeedArgsMsg == [k |-> "needArgs"]
BadDateMsg == [k |-> "badDate"]
BadTimeMsg == [k |-> "badTime"]
SaveFailedMsg == [k |-> "saveFailed"]
NoBookingsMsg == [k |-> "noBookings"]
NeedCancelIdMsg == [k |-> "needCancelId"]
CancelFailedMsg == [k |-> "cancelFailed"]
NeedStatusIdMsg == [k |-> "needStatusId"]
ErrorMsg == [k |-> "error"]
NotFoundMsg(id) == [k |-> "notFound", id |-> id]
CancelledMsg(id) == [k |-> "cancelled", id |-> id]

BookedMsg(id, a) ==
  [k |-> "booked", id |-> id, customer |-> a[2], date |-> a[3],
   time |-> a[4], labType |-> a[5]]

Shown(b) ==
  [id |-> b.id, customer |-> b.customerName, date |-> b.date,
   time |-> b.time, labType |-> b.labType, status |-> b.status]

ListMsg(bs) == [k |-> "list", items |-> [n \in DOMAIN bs |-> Shown(bs[n])]]

StatusMsg(b) ==
  [k |-> "status", id |-> b.id, customer |-> b.customerName, date |-> b.date,
   time |-> b.time, labType |-> b.labType, status |-> b.status,
   bookedOn |-> b.bookingTime]

\* ------------------------------------------------- the synchronous handler

\* What the code between the load and the next suspension point comes to.
ReplyWith(r) ==
  [kind |-> "reply", reply |-> r, doc |-> EmptyDoc, ok |-> NoReply, fail |-> NoReply]
Throw ==
  [kind |-> "throw", reply |-> NoReply, doc |-> EmptyDoc, ok |-> NoReply, fail |-> NoReply]
SaveThen(d, ok, fail) ==
  [kind |-> "save", reply |-> NoReply, doc |-> d, ok |-> ok, fail |-> fail]

\* A booking record with the customer and lab type swapped.
NewBooking_Swapped(id, a, t) ==
  [id |-> id, customerName |-> a[5], date |-> a[3], time |-> a[4],
   labType |-> a[2], status |-> "confirmed", bookingTime |-> t]

NewBooking(id, a, t) ==
  [id |-> id, customerName |-> a[2], date |-> a[3], time |-> a[4],
   labType |-> a[5], status |-> "confirmed", bookingTime |-> t]

\* Array.prototype.unshift instead of push.
Push_Front(bs, b) == <<b>> \o bs

Push(bs, b) == Append(bs, b)

\* findIndex(b => b.id === id), 1-based; 0 stands for the source's -1.
FindIndex(bs, id) ==
  IF \E n \in DOMAIN bs : bs[n].id = id
  THEN CHOOSE n \in DOMAIN bs :
         bs[n].id = id /\ \A m \in DOMAIN bs : bs[m].id = id => n <= m
  ELSE 0

\* A cancel that flips the status back and forth.
SetCancelled_Toggle(bs, n) ==
  [bs EXCEPT ![n].status = IF @ = "cancelled" THEN "confirmed" ELSE "cancelled"]

\* A cancel that removes the record.
SetCancelled_Splice(bs, n) ==
  [m \in 1..(Len(bs) - 1) |-> IF m < n THEN bs[m] ELSE bs[m + 1]]

SetCancelled(bs, n) == [bs EXCEPT ![n].status = "cancelled"]

CaseBook(a, d, t) ==
  IF Len(a) < 5 THEN ReplyWith(NeedArgsMsg)
  ELSE IF ~IsDateFormat(a[3]) THEN ReplyWith(BadDateMsg)
  ELSE IF ~IsTimeFormat(a[4]) THEN ReplyWith(BadTimeMsg)
  ELSE LET id == BookingId(t)
           nb == NewBooking(id, a, t)
       IN IF d.shape # "doc" THEN Throw
          ELSE SaveThen([d EXCEPT !.bookings = Push(@, nb)],
                        BookedMsg(id, a), SaveFailedMsg)

CaseView(d) ==
  IF d.shape = "null" THEN Throw
  ELSE IF d.shape = "plain" \/ (d.shape = "doc" /\ Len(d.bookings) = 0)
       THEN ReplyWith(NoBookingsMsg)
  ELSE IF d.shape # "doc" THEN Throw
  ELSE ReplyWith(ListMsg(d.bookings))

CaseCancel(a, d) ==
  IF Falsy(a, 2) THEN ReplyWith(NeedCancelIdMsg)
  ELSE IF d.shape # "doc" THEN Throw
  ELSE LET n == FindIndex(d.bookings, a[2])
       IN IF n = 0 THEN ReplyWith(NotFoundMsg(a[2]))
          ELSE SaveThen([d EXCEPT !.bookings = SetCancelled(@, n)],
                        CancelledMsg(a[2]), CancelFailedMsg)

CaseStatus(a, d) ==
  IF Falsy(a, 2) THEN ReplyWith(NeedStatusIdMsg)
  ELSE IF d.shape # "doc" THEN Throw
  ELSE LET n == FindIndex(d.bookings, a[2])
       IN IF n = 0 THEN ReplyWith(NotFoundMsg(a[2]))
          ELSE ReplyWith(StatusMsg(d.bookings[n]))

Switch(action, a, d, t) ==
  IF action = TokBook THEN CaseBook(a, d, t)
  ELSE IF action = TokView THEN CaseView(d)
  ELSE IF action = TokCancel THEN CaseCancel(a, d)
  ELSE IF action = TokStatus THEN CaseStatus(a, d)
  ELSE ReplyWith(UnknownMsg)

\* The body of the handler's try block, from the load to the first of: a
\* reply, an exception, the call of saveBookings.
TryBody(a, f, t) ==
  LET l == loadBookings(f)
  IN IF l.threw THEN Throw ELSE Switch(ToLowerCase(a[1]), a, l.value, t)

\* A handler without the catch block: the exception goes on to the host.
RouterCatch_Rethrow(o) == o

\* catch (error) { ...; return repondre(generic message) }
RouterCatch(o) == IF o.kind = "throw" THEN ReplyWith(ErrorMsg) ELSE o

\* A reply that does not look at the flag saveBookings returned.
AfterSave_IgnoreFlag(c, ok) == c.ok

\* if (saved) { confirmation } else { failure message }
AfterSave(c, ok) == IF ok THEN c.ok ELSE c.fail

\* A write that keeps the records already in the file and adds the new ones.
WriteFile_Merge(old, v) ==
  IF old.kind = "json" /\ old.value.shape = "doc"
  THEN Json([v EXCEPT !.bookings =
               old.value.bookings \o
               SubSeq(v.bookings, Len(old.value.bookings) + 1, Len(v.bookings))])
  ELSE Json(v)

\* fs.writeFile(path, JSON.stringify(bookingsData, null, 2)): the whole file
\* is replaced.
WriteFile(old, v) == Stringify(v)

\* ------------------------------------------------------------------- state

VARIABLES
  file,          \* content of data/lab_bookings.json
  now,           \* the clock Date.now() reads
  started,       \* invocations started so far
  pc,            \* per slot: idle, read, mkdir, write, done
  args,          \* per slot: commandeOptions.args
  raw,           \* per slot: the file content its readFile returned
  data,          \* per slot: bookingsData as handed to saveBookings
  cont,          \* per slot: the replies that follow the save
  replies,       \* per slot: what repondre was called with, in order
  saved,         \* per slot: saveBookings returned true
  raised,        \* per slot: the try block raised an exception
  escaped,       \* per slot: an exception left the handler
  stale,         \* per slot: another invocation saved after this one loaded
  lastUpdate,    \* the change made by the latest successful save
  everCancelled, \* <<position, record without status>> persisted as cancelled
  overlapped,    \* two invocations have been in flight at once
  prev           \* SeqSpec: the invocation before the current one

slotVars == <<pc, args, raw, data, cont, replies, saved, raised, escaped>>
vars == <<file, now, started, pc, args, raw, data, cont, replies, saved, raised,
          escaped, stale, lastUpdate, everCancelled, overlapped, prev>>

NoCont == [ok |-> NoReply, fail |-> NoReply]
NoUpdate == [kind |-> "none", rec |-> NoReply, index |-> 0]
NoPrev == [args |-> <<>>, replies |-> <<>>, saved |-> FALSE, file |-> Missing]

\* The argument lists an invocation is started with.
BookArgs ==
  {<<TokBook, n, d, t, l>> :
     n \in Names, d \in GoodDates \cup BadDates, t \in GoodTimes, l \in LabTypes}
  \cup {<<TokBook, Alice, d, t, Chem>> : d \in GoodDates, t \in BadTimes}
  \cup {<<TokBookCaps, Bob, GoodDate, GoodTime, Chem>>}
  \cup {<<TokBook, Alice, GoodDate, GoodTime>>}

IdTokens == {BookingId(t) : t \in Instants} \cup {AbsentId}

ArgLists ==
  {<<>>, <<TokEmpty>>, <<TokOther>>, <<TokView>>, <<TokCancel>>, <<TokStatus>>}
  \cup {<<TokCancel, id>> : id \in IdTokens}
  \cup {<<TokStatus, id>> : id \in IdTokens}
  \cup BookArgs

\* The record without its status: what identifies it in the list.
Core(b) ==
  [id |-> b.id, customerName |-> b.customerName, date |-> b.date,
   time |-> b.time, labType |-> b.labType, bookingTime |-> b.bookingTime]

\* The bookings list a file content holds; none when it is no document.
BookingsOf(f) ==
  IF f.kind = "json" /\ f.value.shape = "doc" THEN f.value.bookings ELSE <<>>

CancelledIn(bs) ==
  {<<n, Core(bs[n])>> : n \in {m \in DOMAIN bs : bs[m].status = "cancelled"}}

\* The change an invocation that reached saveBookings made to what it loaded.
UpdateOf(a, loaded, d) ==
  IF ToLowerCase(a[1]) = TokBook
  THEN [kind |-> "book", rec |-> d.bookings[Len(d.bookings)], index |-> Len(d.bookings)]
  ELSE LET n == FindIndex(loaded.bookings, a[2])
       IN [kind |-> "cancel",
           rec |-> IF n \in DOMAIN d.bookings THEN d.bookings[n] ELSE NoReply,
           index |-> n]

InFlight(i) == pc[i] \in {"read", "mkdir", "write"}

\* A record an earlier run booked, one id period before instant 0, and the
\* same record after a cancel.
SeedConfirmed ==
  NewBooking(BookingId(0 - IdModulus), <<TokBook, Alice, GoodDate, GoodTime, Chem>>,
             0 - IdModulus)
SeedCancelled == [SeedConfirmed EXCEPT !.status = "cancelled"]

\* Files the program itself wrote.
StoredFiles ==
  {Json(EmptyDoc), Json(Value("doc", <<SeedConfirmed>>)),
   Json(Value("doc", <<SeedCancelled>>))}

\* No file, a file that is not JSON, JSON of another shape, a stored file.
InitFiles ==
  {Missing, Garbage, Json(NullValue), Json(PlainValue), Json(NonListValue)}
  \cup StoredFiles

InitCommon ==
  /\ now = 0
  /\ started = 0
  /\ pc = [i \in Slots |-> "idle"]
  /\ args = [i \in Slots |-> <<>>]
  /\ raw = [i \in Slots |-> Missing]
  /\ data = [i \in Slots |-> EmptyDoc]
  /\ cont = [i \in Slots |-> NoCont]
  /\ replies = [i \in Slots |-> <<>>]
  /\ saved = [i \in Slots |-> FALSE]
  /\ raised = [i \in Slots |-> FALSE]
  /\ escaped = [i \in Slots |-> FALSE]
  /\ stale = [i \in Slots |-> FALSE]
  /\ lastUpdate = NoUpdate
  /\ everCancelled = CancelledIn(BookingsOf(file))
  /\ overlapped = FALSE
  /\ prev = NoPrev

Init == file \in InitFiles /\ InitCommon

\* A store the program itself left behind, or none yet.
SeqInit == file \in ({Missing} \cup StoredFiles) /\ InitCommon

\* ----------------------------------------------------------------- actions

\* The clock moves on to a later instant.
Tick ==
  /\ \E t \in Instants : t > now /\ now' = t
  /\ UNCHANGED <<file, started, slotVars, stale, lastUpdate, everCancelled,
                 overlapped, prev>>

\* The host calls the handler with args: lines 46-61.  Without a first
\* token the help text is the reply and the store is not touched; otherwise
\* the handler suspends in loadBookings' readFile.
Start(i, a, max) ==
  /\ pc[i] \in {"idle", "done"}
  /\ started < max
  /\ started' = started + 1
  /\ args' = [args EXCEPT ![i] = a]
  /\ raw' = [raw EXCEPT ![i] = Missing]
  /\ data' = [data EXCEPT ![i] = EmptyDoc]
  /\ cont' = [cont EXCEPT ![i] = NoCont]
  /\ saved' = [saved EXCEPT ![i] = FALSE]
  /\ raised' = [raised EXCEPT ![i] = FALSE]
  /\ escaped' = [escaped EXCEPT ![i] = FALSE]
  /\ stale' = [stale EXCEPT ![i] = FALSE]
  /\ IF Falsy(a, 1)
     THEN /\ replies' = [replies EXCEPT ![i] = <<HelpMsg>>]
          /\ pc' = [pc EXCEPT ![i] = "done"]
          /\ UNCHANGED overlapped
     ELSE /\ replies' = [replies EXCEPT ![i] = <<>>]
          /\ pc' = [pc EXCEPT ![i] = "read"]
          /\ overlapped' = (overlapped \/ \E j \in Slots \ {i} : InFlight(j))
  /\ UNCHANGED <<file, now, lastUpdate, everCancelled>>

\* readFile completes: lines 11-17 and 65-195 up to the reply, the exception
\* or the mkdir of saveBookings.
Read(i) ==
  /\ pc[i] = "read"
  /\ LET body == TryBody(args[i], file, now)
         o == RouterCatch(body)
     IN /\ raw' = [raw EXCEPT ![i] = file]
        /\ raised' = [raised EXCEPT ![i] = (body.kind = "throw")]
        /\ IF o.kind = "save"
           THEN /\ data' = [data EXCEPT ![i] = o.doc]
                /\ cont' = [cont EXCEPT ![i] = [ok |-> o.ok, fail |-> o.fail]]
                /\ pc' = [pc EXCEPT ![i] = "mkdir"]
                /\ UNCHANGED <<replies, escaped>>
           ELSE /\ pc' = [pc EXCEPT ![i] = "done"]
                /\ replies' = [replies EXCEPT ![i] =
                                 IF o.kind = "reply" THEN Append(@, o.reply) ELSE @]
                /\ escaped' = [escaped EXCEPT ![i] = (o.kind = "throw")]
                /\ UNCHANGED <<data, cont>>
  /\ UNCHANGED <<file, now, started, args, saved, stale, lastUpdate,
                 everCancelled, overlapped, prev>>

\* fs.mkdir(dir, {recursive: true}) completes: lines 23-24, and on failure
\* lines 29-31 followed by the caller's failure reply.
Mkdir(i) ==
  /\ pc[i] = "mkdir"
  /\ \E ok \in BOOLEAN :
       IF ok
       THEN /\ pc' = [pc EXCEPT ![i] = "write"]
            /\ UNCHANGED replies
       ELSE /\ pc' = [pc EXCEPT ![i] = "done"]
            /\ replies' = [replies EXCEPT ![i] = Append(@, AfterSave(cont[i], FALSE))]
  /\ UNCHANGED <<file, now, started, args, raw, data, cont, saved, raised, escaped,
                 stale, lastUpdate, everCancelled, overlapped, prev>>

\* fs.writeFile completes: lines 27-28 with the caller's confirmation, or
\* lines 29-31 with the caller's failure reply.  A write that is refused
\* leaves the file as it was.
Write(i) ==
  /\ pc[i] = "write"
  /\ pc' = [pc EXCEPT ![i] = "done"]
  /\ \E ok \in BOOLEAN :
       /\ saved' = [saved EXCEPT ![i] = ok]
       /\ replies' = [replies EXCEPT ![i] = Append(@, AfterSave(cont[i], ok))]
       /\ IF ok
          THEN /\ file' = WriteFile(file, data[i])
               /\ lastUpdate' = UpdateOf(args[i], loadBookings(raw[i]).value, data[i])
               /\ everCancelled' = everCancelled \cup CancelledIn(BookingsOf(file'))
               /\ stale' = [j \in Slots |->
                              IF j # i /\ pc[j] \in {"mkdir", "write"}
                              THEN TRUE ELSE stale[j]]
          ELSE UNCHANGED <<file, lastUpdate, everCancelled, stale>>
  /\ UNCHANGED <<now, started, args, raw, data, cont, raised, escaped, overlapped,
                 prev>>

\* Any slot that is free takes the next command, whatever the others do.
Invoke(i) ==
  /\ \E a \in ArgLists : Start(i, a, MaxInvocations)
  /\ UNCHANGED prev

Next ==
  \/ Tick
  \/ \E i \in Slots : Invoke(i)
  \/ \E i \in Slots : Read(i)
  \/ \E i \in Slots : Mkdir(i)
  \/ \E i \in Slots : Write(i)

Spec == Init /\ [][Next]_vars

\* One invocation at a time, each run to its reply before the next starts.
SeqStart ==
  /\ \E a \in ArgLists : Start(1, a, MaxSeqInvocations)
  /\ prev' = [args |-> args[1], replies |-> replies[1], saved |-> saved[1],
              file |-> file]

SeqNext == Tick \/ SeqStart \/ Read(1) \/ Mkdir(1) \/ Write(1)

SeqSpec == SeqInit /\ [][SeqNext]_vars

\* ------------------------------------------------------------------ claims

IsAction(a, tok) == ~Falsy(a, 1) /\ ToLowerCase(a[1]) = tok

\* A book invocation whose arguments pass every check, by the input sets.
ValidBook(a) ==
  /\ IsAction(a, TokBook)
  /\ Len(a) >= 5
  /\ a[3] \in GoodDates
  /\ a[4] \in GoodTimes

HasId(bs, id) == \E n \in DOMAIN bs : bs[n].id = id

\* A cancel invocation whose id is the id of a record of what it loaded.
MatchingCancel(a, f) ==
  /\ IsAction(a, TokCancel)
  /\ ~Falsy(a, 2)
  /\ HasId(BookingsOf(f), a[2])

Last(s) == s[Len(s)]

\* The least position of a record with this id.
FirstWithId(bs, id) ==
  CHOOSE n \in DOMAIN bs : bs[n].id = id /\ \A m \in 1..(n - 1) : bs[m].id # id

\* C1: the bookings file is written only by the successful write of a book
\* invocation that passed validation or of a cancel invocation whose id is
\* stored; no other invocation reaches the save or changes (or creates) it.
C1_OnlyBookAndCancelWrite ==
  /\ [](\A i \in Slots :
          (pc[i] \in {"mkdir", "write"} \/ saved[i])
            => (ValidBook(args[i]) \/ MatchingCancel(args[i], raw[i])))
  /\ [][(file' # file \/ \E i \in Slots : ~saved[i] /\ saved'[i])
          => \E i \in Slots :
               /\ pc[i] = "write"
               /\ saved'[i]
               /\ (ValidBook(args[i]) \/ MatchingCancel(args[i], raw[i]))]_vars

C1_Witness ==
  \E i \in Slots :
    /\ pc[i] = "done"
    /\ args[i] = <<TokCancel, AbsentId>>
    /\ replies[i] = <<NotFoundMsg(AbsentId)>>
    /\ Len(BookingsOf(raw[i])) > 0
    /\ file = raw[i]

\* C2: a valid book whose save succeeds, run alone on a well-formed store,
\* leaves the list as it was with one record appended: the inputs verbatim,
\* status confirmed, and the reply carries that record's id.
C2_BookAppendsOneRecord ==
  (pc[1] = "done" /\ ValidBook(args[1]) /\ saved[1])
    => LET before == BookingsOf(raw[1])
           after == BookingsOf(file)
           a == args[1]
       IN /\ file.kind = "json" /\ file.value.shape = "doc"
          /\ Len(after) = Len(before) + 1
          /\ SubSeq(after, 1, Len(before)) = before
          /\ Last(after).customerName = a[2]
          /\ Last(after).date = a[3]
          /\ Last(after).time = a[4]
          /\ Last(after).labType = a[5]
          /\ Last(after).status = "confirmed"
          /\ Len(replies[1]) = 1
          /\ replies[1][1].k = "booked"
          /\ replies[1][1].id = Last(after).id

C2_Witness ==
  /\ pc[1] = "done"
  /\ ValidBook(args[1])
  /\ saved[1]
  /\ Len(BookingsOf(raw[1])) >= 1
  /\ Len(BookingsOf(file)) = Len(BookingsOf(raw[1])) + 1

PrevBooked ==
  /\ ValidBook(prev.args)
  /\ Len(prev.replies) = 1
  /\ prev.replies[1].k = "booked"

\* C3: after a confirmed booking, the confirmation repeats the inputs, and
\* the next status invocation with the confirmation's id (and the next view)
\* shows the record just booked, with those inputs.
C3_StatusShowsBookedRecord ==
  (pc[1] = "done" /\ PrevBooked)
    => LET p == prev.replies[1]
           a == prev.args
       IN /\ p.customer = a[2] /\ p.date = a[3] /\ p.time = a[4] /\ p.labType = a[5]
          /\ args[1] = <<TokStatus, p.id>>
               => /\ Len(replies[1]) = 1
                  /\ replies[1][1].k = "status"
                  /\ replies[1][1].id = p.id
                  /\ replies[1][1].customer = a[2]
                  /\ replies[1][1].date = a[3]
                  /\ replies[1][1].time = a[4]
                  /\ replies[1][1].labType = a[5]
          /\ args[1] = <<TokView>>
               => /\ Len(replies[1]) = 1
                  /\ replies[1][1].k = "list"
                  /\ \E n \in DOMAIN replies[1][1].items :
                       LET it == replies[1][1].items[n]
                       IN /\ it.id = p.id /\ it.customer = a[2] /\ it.date = a[3]
                          /\ it.time = a[4] /\ it.labType = a[5]

\* C4: cancel of a stored id whose save succeeds replies with success and
\* leaves the first record of that id cancelled; applied a second time in
\* succession it replies with success again and the file after the second
\* application equals the file after the first.
C4_CancelIdempotent ==
  (pc[1] = "done" /\ MatchingCancel(args[1], raw[1]))
    => LET id == args[1][2]
           after == BookingsOf(file)
       IN /\ replies[1] \in {<<CancelledMsg(id)>>, <<CancelFailedMsg>>}
          /\ saved[1] =>
               /\ replies[1] = <<CancelledMsg(id)>>
               /\ HasId(after, id)
               /\ after[FirstWithId(after, id)].status = "cancelled"
          /\ (saved[1] /\ prev.args = args[1] /\ prev.saved) =>
               /\ prev.replies = <<CancelledMsg(id)>>
               /\ file = prev.file

C4_Witness ==
  /\ pc[1] = "done"
  /\ MatchingCancel(args[1], raw[1])
  /\ saved[1]
  /\ prev.args = args[1]
  /\ prev.saved
  /\ prev.replies = <<CancelledMsg(args[1][2])>>

StatusDomain ==
  \A n \in DOMAIN BookingsOf(file) :
    BookingsOf(file)[n].status \in {"confirmed", "cancelled"}

NoReconfirmation ==
  \A n \in DOMAIN BookingsOf(file) :
    <<n, Core(BookingsOf(file)[n])>> \in everCancelled
      => BookingsOf(file)[n].status = "cancelled"

\* C5 as stated: every persisted status is confirmed or cancelled and a
\* record once persisted as cancelled is never persisted as confirmed again,
\* overlapping invocations included.
C5_NoReconfirmationEver == StatusDomain /\ NoReconfirmation

\* C5 as amended: every persisted status is confirmed or cancelled in every
\* run; a record once persisted as cancelled is never persisted as confirmed
\* again as long as no two invocations have been in flight at once.
C5_NoReconfirmationSequential ==
  StatusDomain /\ (~overlapped => NoReconfirmation)

\* A cancel was saved, and after it a booking that loaded what it wrote.
C5_Witness ==
  /\ ~overlapped
  /\ \E i, j \in Slots :
       /\ i # j
       /\ pc[i] = "done" /\ saved[i] /\ MatchingCancel(args[i], raw[i])
       /\ pc[j] = "done" /\ saved[j] /\ ValidBook(args[j])
       /\ raw[j] = Stringify(data[i])
       /\ CancelledIn(BookingsOf(raw[j])) # {}
       /\ file = Stringify(data[j])

Occurrences(bs, r) == Cardinality({n \in DOMAIN bs : bs[n] = r})

MyUpdate(j) == UpdateOf(args[j], loadBookings(raw[j]).value, data[j])

\* The update u of the first saver does not show in the list final, which
\* the second saver j wrote: a booked record adds no occurrence beyond those
\* j loaded or appended itself; a cancelled record is not at its position.
Absent(u, j, final) ==
  IF u.kind = "book"
  THEN Occurrences(final, u.rec)
         <= Occurrences(BookingsOf(raw[j]), u.rec)
            + (IF MyUpdate(j).kind = "book" /\ MyUpdate(j).rec = u.rec THEN 1 ELSE 0)
  ELSE ~(u.index \in DOMAIN final /\ final[u.index] = u.rec)

\* The successful write of an invocation that loaded before the latest
\* successful save of another invocation.
SecondSave(j) == pc[j] = "write" /\ stale[j] /\ saved'[j]

FailureMsgOf(a) == IF IsAction(a, TokBook) THEN SaveFailedMsg ELSE CancelFailedMsg

\* A save step of invocation i that ends in failure.
SaveFails(i) == pc[i] \in {"mkdir", "write"} /\ pc'[i] = "done" /\ ~saved'[i]

\* Invocation i sends its confirmation in this step.
SendsSuccess(i) ==
  /\ Len(replies'[i]) > Len(replies[i])
  /\ Last(replies'[i]).k \in {"booked", "cancelled"}

C8_OneReplyNoEscape ==
  \A i \in Slots :
    /\ InFlight(i) => replies[i] = <<>>
    /\ pc[i] = "done"
         => /\ Len(replies[i]) = 1
            /\ ~escaped[i]
            /\ raised[i] => replies[i] = <<ErrorMsg>>

C8_Witness ==
  \E i \in Slots :
    /\ pc[i] = "done"
    /\ raised[i]
    /\ raw[i] = Json(NonListValue)
    /\ args[i] = <<TokView>>
    /\ replies[i] = <<ErrorMsg>>

\* Invocation i has loaded a missing or unparsable file.
LoadedNoStore(i) ==
  /\ pc[i] \in {"mkdir", "write", "done"}
  /\ ~Falsy(args[i], 1)
  /\ raw[i].kind \in {"missing", "garbage"}

\* C9: an invocation that finds the file missing or unparsable behaves as on
\* the empty store and reports no error: view says no bookings, status and
\* cancel with an id say not found, and a valid book whose save succeeds
\* leaves a document with exactly one record, the new one.
C9_NoStoreIsEmptyStore ==
  /\ [](\A i \in Slots :
          (LoadedNoStore(i) /\ pc[i] = "done")
            => /\ ~raised[i]
               /\ IsAction(args[i], TokView) => replies[i] = <<NoBookingsMsg>>
               /\ (IsAction(args[i], TokStatus) /\ ~Falsy(args[i], 2))
                    => replies[i] = <<NotFoundMsg(args[i][2])>>
               /\ (IsAction(args[i], TokCancel) /\ ~Falsy(args[i], 2))
                    => replies[i] = <<NotFoundMsg(args[i][2])>>
               /\ ValidBook(args[i])
                    => \/ replies[i] = <<SaveFailedMsg>>
                       \/ /\ saved[i]
                          /\ Len(replies[i]) = 1
                          /\ replies[i][1].k = "booked"
                          /\ replies[i][1].customer = args[i][2])
  /\ [][\A i \in Slots :
          (LoadedNoStore(i) /\ ValidBook(args[i]) /\ pc[i] = "write" /\ saved'[i])
            => LET bs == BookingsOf(file')
               IN /\ file'.kind = "json" /\ file'.value.shape = "doc"
                  /\ Len(bs) = 1
                  /\ bs[1].customerName = args[i][2]
                  /\ bs[1].date = args[i][3]
                  /\ bs[1].time = args[i][4]
                  /\ bs[1].labType = args[i][5]
                  /\ bs[1].status = "confirmed"
                  /\ replies'[i] = <<BookedMsg(bs[1].id, args[i])>>]_vars

C9_Witness ==
  \E i \in Slots :
    /\ pc[i] = "done"
    /\ raw[i] = Garbage
    /\ ValidBook(args[i])
    /\ saved[i]
    /\ Len(BookingsOf(file)) = 1
    /\ file = Stringify(data[i])

\* One list is the other's prefix, position by position, up to the status.
CorePrefix(before, after) ==
  /\ Len(before) <= Len(after)
  /\ \A n \in DOMAIN before : Core(after[n]) = Core(before[n])

\* C10: run one at a time on a well-formed store, every step leaves the old
\* list as the prefix of the new one up to the status, and adds at most one
\* record; an invocation that is not a saved cancel leaves every old record
\* as it was, and a saved cancel sets the status of the first record with
\* the given id and of no other.
C10_AppendOnlyInOrder ==
  /\ [][/\ CorePrefix(BookingsOf(file), BookingsOf(file'))
        /\ Len(BookingsOf(file')) <= Len(BookingsOf(file)) + 1]_vars
  /\ []((pc[1] = "done" /\ ~Falsy(args[1], 1))
          => LET before == BookingsOf(raw[1])
                 after == BookingsOf(file)
             IN /\ CorePrefix(before, after)
                /\ Len(after) <= Len(before) + 1
                /\ IF MatchingCancel(args[1], raw[1]) /\ saved[1]
                   THEN after = [before EXCEPT
                                   ![FirstWithId(before, args[1][2])].status = "cancelled"]
                   ELSE SubSeq(after, 1, Len(before)) = before)

C10_Witness ==
  /\ pc[1] = "done"
  /\ MatchingCancel(args[1], raw[1])
  /\ saved[1]
  /\ Len(BookingsOf(raw[1])) >= 2
  /\ FirstWithId(BookingsOf(raw[1]), args[1][2]) = 2
  /\ BookingsOf(file)[1] = BookingsOf(raw[1])[1]
  /\ BookingsOf(file)[2].status = "cancelled"

====
